---- MODULE Spec2Model ----
(***************************************************************************)
(* The in-memory trade store (TradeDB) and the two read endpoints of       *)
(* main.py, list_trades and get_trade_by_id.                               *)
(*                                                                         *)
(* Python values are represented as follows.                               *)
(*   str             a tuple of one-character strings, "" being <<>>       *)
(*   Optional[X]     None is <<>>, a present value v is <<v>>              *)
(*   datetime, float integers (only their order is used by the code)       *)
(*   a sort_by entry a tuple of "-" characters followed by one name token, *)
(*                   <<"-", "trader">> being the string "-trader"          *)
(* What an operation gives back is a record [status, body]: status "ok"    *)
(* with the returned list, or the name of the exception that escaped.      *)
(***************************************************************************)
EXTENDS Integers, Sequences, FiniteSets, TLC

VARIABLES trades, req, resp

vars == <<trades, req, resp>>

----------------------------------------------------------------------------
(* Bounds of the model *)

MaxTrades == 3
MaxKeys == 2
MaxPage == 3
MaxPageSize == 3

(* Default of the page_size parameter *)
DefaultPageSize == 10

----------------------------------------------------------------------------
(* Python values *)

None == <<>>
Some(v) == <<v>>
Val(o) == o[1]

Ok(b) == [status |-> "ok", body |-> b]
Raise(e) == [status |-> e, body |-> <<>>]

Elems(s) == {s[i] : i \in DOMAIN s}
Min(a, b) == IF a < b THEN a ELSE b
Max(a, b) == IF a < b THEN b ELSE a

(* bool(x) of an Optional[str]: None and "" are false *)
Truthy(o) == o # None /\ Val(o) # <<>>

(* str.lower() over the alphabet {"a", "b", "A"} *)
LowerChar(c) == IF c = "A" THEN "a" ELSE c
lower(s) == [i \in DOMAIN s |-> LowerChar(s[i])]

(* `needle in hay` for two str: substring test *)
Contains(needle, hay) == \E i \in 0..(Len(hay) - Len(needle)) : SubSeq(hay, i + 1, i + Len(needle)) = needle

(* Code point order of the alphabet: "A" < "a" < "b" *)
Ord(c) == CASE c = "A" -> 65 [] c = "a" -> 97 [] c = "b" -> 98

(* a < b for two str: lexicographic by code point *)
StrLess(a, b) == \E k \in 1..(Min(Len(a), Len(b)) + 1) : /\ \A i \in 1..(k - 1) : a[i] = b[i]
                                                         /\ IF k > Len(a) THEN k <= Len(b) ELSE k <= Len(b) /\ Ord(a[k]) < Ord(b[k])

(* seq[a:b], Python slicing with negative indices and clamping *)
SliceIndex(i, n) == IF i < 0 THEN Max(i + n, 0) ELSE Min(i, n)
PySlice(s, a, b) == LET lo == SliceIndex(a, Len(s))
                        hi == SliceIndex(b, Len(s))
                    IN IF hi <= lo THEN <<>> ELSE SubSeq(s, lo + 1, hi)

Reverse(s) == [i \in DOMAIN s |-> s[Len(s) + 1 - i]]

----------------------------------------------------------------------------
(* Data model: the pydantic classes check the field types and nothing else *)

TradeDetails(buySellIndicator, price, quantity) == [buySellIndicator |-> buySellIndicator, price |-> price, quantity |-> quantity]

Trade(asset_class, counterparty, instrument_id, instrument_name, trade_date_time, trade_details, trade_id, trader) ==
    [asset_class |-> asset_class, counterparty |-> counterparty, instrument_id |-> instrument_id,
     instrument_name |-> instrument_name, trade_date_time |-> trade_date_time, trade_details |-> trade_details,
     trade_id |-> trade_id, trader |-> trader]

(* The trades offered to add_trade. All are accepted by the constructors.  *)
TradeInputs ==
    { Trade(Some(<<"a">>), Some(<<"b">>), <<"a">>, <<"A">>, 1, TradeDetails("BUY", 1, 1), Some(<<"a">>), <<"a">>),
      Trade(Some(<<"a", "b">>), Some(<<"b">>), <<"a">>, <<"A">>, 2, TradeDetails("SELL", 2, 1), Some(<<"b">>), <<"a">>),
      Trade(Some(<<"b">>), Some(<<"b">>), <<"b">>, <<"A">>, 1, TradeDetails("BUY", 2, 2), Some(<<"a", "b">>), <<"b">>),
      Trade(Some(<<"a", "b">>), Some(<<"b">>), <<"b">>, <<"A">>, 2, TradeDetails("SELL", 1, 1), Some(<<"a">>), <<"A", "b">>),
      Trade(None, None, <<"b">>, <<"A">>, 2, TradeDetails("BUY", 2, 1), None, <<"b">>),
      Trade(Some(<<"b">>), Some(<<"b">>), <<"a">>, <<"A">>, 1, TradeDetails("HOLD", -1, 0), Some(<<"b", "b">>), <<"a">>) }

(* The ids asked of the get-by-id endpoint; no trade offered has the last *)
TradeIds == {<<"a">>, <<"b">>, <<"a", "b">>, <<"A">>}

----------------------------------------------------------------------------
(* TradeDB *)

TradeDB_get_trade_by_id(ts, trade_id) ==
    IF \E i \in DOMAIN ts : ts[i].trade_id = trade_id
    THEN Some(ts[CHOOSE i \in DOMAIN ts : ts[i].trade_id = trade_id /\ \A j \in 1..(i - 1) : ts[j].trade_id # trade_id])
    ELSE None

(* The condition of the search loop for one trade: "yes", "no" or "raise"  *)
(* (counterparty.lower() of a None counterparty, reached when neither      *)
(* instrument field matched).                                              *)
SearchMatch(t, query_lower) ==
    IF Contains(query_lower, lower(t.instrument_id)) \/ Contains(query_lower, lower(t.instrument_name)) THEN "yes"
    ELSE IF t.counterparty = None THEN "raise"
    ELSE IF Contains(query_lower, lower(Val(t.counterparty))) \/ Contains(query_lower, lower(t.trader)) THEN "yes"
    ELSE "no"

search_trades(ts, query) ==
    LET query_lower == lower(query)
        hit(t) == SearchMatch(t, query_lower) = "yes"
    IN IF \E i \in DOMAIN ts : SearchMatch(ts[i], query_lower) = "raise"
       THEN Raise("AttributeError")
       ELSE Ok(SelectSeq(ts, hit))

(* `x in container`: membership for a list, substring test for a str,     *)
(* which raises for a left operand that is None.                          *)
PyIn(x, container) ==
    IF container.kind = "list" THEN IF x # None /\ Val(x) \in Elems(container.val) THEN "yes" ELSE "no"
    ELSE IF x = None THEN "raise"
    ELSE IF Contains(Val(x), container.val) THEN "yes" ELSE "no"

(* The condition of the filter loop for one trade *)
FilterMatch(t, asset_classes, start, end, min_price, max_price, trade_type) ==
    LET a == IF asset_classes = None THEN "yes" ELSE PyIn(t.asset_class, Val(asset_classes))
    IN IF a # "yes" THEN a
       ELSE IF /\ (start = None \/ t.trade_date_time >= Val(start))
               /\ (end = None \/ t.trade_date_time <= Val(end))
               /\ (min_price = None \/ t.trade_details.price >= Val(min_price))
               /\ (max_price = None \/ t.trade_details.price <= Val(max_price))
               /\ (trade_type = None \/ t.trade_details.buySellIndicator = Val(trade_type))
            THEN "yes" ELSE "no"

filter_trades(ts, asset_classes, start, end, min_price, max_price, trade_type) ==
    LET m(t) == FilterMatch(t, asset_classes, start, end, min_price, max_price, trade_type)
        hit(t) == m(t) = "yes"
    IN IF \E i \in DOMAIN ts : m(ts[i]) = "raise"
       THEN Raise("TypeError")
       ELSE Ok(SelectSeq(ts, hit))

----------------------------------------------------------------------------
(* Sorting: sorted(list, key=lambda x: getattr(x, sort_field), reverse=..) *)

(* field.startswith("-") and field.lstrip("-") of a sort_by entry *)
startswith_dash(field) == field # <<>> /\ field[1] = "-"
lstrip_dash(field) == SubSeq(field, Cardinality({i \in DOMAIN field : \A j \in 1..i : field[j] = "-"}) + 1, Len(field))

(* What getattr(trade, sort_field) gives: a str, a datetime, an           *)
(* Optional[str], the nested TradeDetails model, or no such attribute.    *)
AttrKind(sort_field) ==
    CASE sort_field \in {<<"instrument_id">>, <<"instrument_name">>, <<"trader">>} -> "str"
      [] sort_field = <<"trade_date_time">> -> "datetime"
      [] sort_field \in {<<"asset_class">>, <<"counterparty">>, <<"trade_id">>} -> "optional"
      [] sort_field = <<"trade_details">> -> "model"
      [] OTHER -> "missing"

getattr(t, sort_field) ==
    CASE sort_field = <<"instrument_id">> -> t.instrument_id
      [] sort_field = <<"instrument_name">> -> t.instrument_name
      [] sort_field = <<"trader">> -> t.trader
      [] sort_field = <<"trade_date_time">> -> t.trade_date_time
      [] sort_field = <<"asset_class">> -> t.asset_class
      [] sort_field = <<"counterparty">> -> t.counterparty
      [] sort_field = <<"trade_id">> -> t.trade_id
      [] sort_field = <<"trade_details">> -> t.trade_details

(* Whether the keys of a list of two or more trades support `<`: a       *)
(* TradeDetails does not, and neither does None.                         *)
KeysOrderable(ts, sort_field) ==
    CASE AttrKind(sort_field) \in {"str", "datetime"} -> TRUE
      [] AttrKind(sort_field) = "optional" -> \A i \in DOMAIN ts : getattr(ts[i], sort_field) # None
      [] OTHER -> FALSE

(* key(x) < key(y) for orderable keys *)
KeyLess(sort_field, x, y) ==
    CASE AttrKind(sort_field) = "datetime" -> getattr(x, sort_field) < getattr(y, sort_field)
      [] AttrKind(sort_field) = "str" -> StrLess(getattr(x, sort_field), getattr(y, sort_field))
      [] AttrKind(sort_field) = "optional" -> StrLess(Val(getattr(x, sort_field)), Val(getattr(y, sort_field)))

(* The stable insertion sort list.sort runs on short lists: each element  *)
(* goes after every element already placed that is not greater than it.   *)
RECURSIVE InsertionSort(_, _)
InsertionSort(ts, sort_field) ==
    IF ts = <<>> THEN <<>>
    ELSE LET placed == InsertionSort(SubSeq(ts, 1, Len(ts) - 1), sort_field)
             x == ts[Len(ts)]
             k == Cardinality({i \in DOMAIN placed : ~KeyLess(sort_field, x, placed[i])})
         IN SubSeq(placed, 1, k) \o <<x>> \o SubSeq(placed, k + 1, Len(placed))

(* reverse=True: the list is reversed, sorted stably, and reversed again, *)
(* so that equal keys keep their original order.                          *)
ReverseSorted_SortThenReverse(ts, sort_field) == Reverse(InsertionSort(ts, sort_field))

ReverseSorted(ts, sort_field) == Reverse(InsertionSort(Reverse(ts), sort_field))

sorted(ts, sort_field, reverse_sort) ==
    IF ts = <<>> THEN Ok(<<>>)
    ELSE IF AttrKind(sort_field) = "missing" THEN Raise("AttributeError")
    ELSE IF Len(ts) < 2 THEN Ok(ts)
    ELSE IF ~KeysOrderable(ts, sort_field) THEN Raise("TypeError")
    ELSE Ok(IF reverse_sort THEN ReverseSorted(ts, sort_field) ELSE InsertionSort(ts, sort_field))

(* for field in sort_by: sorted_trades = sorted(sorted_trades, ...) *)
RECURSIVE SortLoop(_, _)
SortLoop(ts, sort_by) ==
    IF sort_by = <<>> THEN Ok(ts)
    ELSE LET r == sorted(ts, lstrip_dash(Head(sort_by)), startswith_dash(Head(sort_by)))
         IN IF r.status # "ok" THEN r ELSE SortLoop(r.body, Tail(sort_by))

----------------------------------------------------------------------------
(* The list endpoint *)

DefaultQuery ==
    [asset_classes |-> None, start |-> None, end |-> None, min_price |-> None, max_price |-> None,
     trade_type |-> None, trader |-> None, page |-> 1, page_size |-> DefaultPageSize,
     sort_by |-> << <<"trade_date_time">> >>, search |-> None, exclude_traders |-> <<>>]

(* The asset_classes parameter of the endpoint is one str *)
PyStr(s) == [kind |-> "str", val |-> s]
PyList(l) == [kind |-> "list", val |-> l]

ExcludeTraders_KeepExcluded(ts, exclude_traders) ==
    LET keep(t) == t.trader \in Elems(exclude_traders)
    IN SelectSeq(ts, keep)

(* [trade for trade in filtered_trades if trade.trader not in exclude_traders] *)
ExcludeTraders(ts, exclude_traders) ==
    LET keep(t) == t.trader \notin Elems(exclude_traders)
    IN SelectSeq(ts, keep)

(* if trader: [trade for trade in filtered_trades if trade.trader == trader] *)
RestrictTrader(ts, trader) ==
    LET keep(t) == t.trader = Val(trader)
    IN IF Truthy(trader) THEN SelectSeq(ts, keep) ELSE ts

(* Search, filter, exclusion and trader restriction: the list handed to   *)
(* the sort. The filter reads the store, not the search result.           *)
FilterStage(ts, q) ==
    LET searched == IF Truthy(q.search) THEN search_trades(ts, Val(q.search)) ELSE Ok(ts)
        filtered == filter_trades(ts, IF q.asset_classes = None THEN None ELSE Some(PyStr(Val(q.asset_classes))),
                                  q.start, q.end, q.min_price, q.max_price, q.trade_type)
    IN IF searched.status # "ok" THEN searched
       ELSE IF filtered.status # "ok" THEN filtered
       ELSE Ok(RestrictTrader(ExcludeTraders(filtered.body, q.exclude_traders), q.trader))

SortStage(ts, q) ==
    LET filtered == FilterStage(ts, q)
    IN IF filtered.status # "ok" THEN filtered ELSE SortLoop(filtered.body, q.sort_by)

start_idx_ZeroIndexedPage(page, page_size) == page * page_size

start_idx(page, page_size) == (page - 1) * page_size

list_trades(ts, q) ==
    LET sorted_trades == SortStage(ts, q)
    IN IF sorted_trades.status # "ok" THEN sorted_trades
       ELSE Ok(PySlice(sorted_trades.body, start_idx(q.page, q.page_size), start_idx(q.page, q.page_size) + q.page_size))

(* The get-by-id endpoint: 404 when the store gives None *)
get_trade_by_id(ts, trade_id) ==
    LET trade == TradeDB_get_trade_by_id(ts, Some(trade_id))
    IN IF trade # None THEN Ok(<<Val(trade)>>) ELSE Raise("NotFound")

----------------------------------------------------------------------------
(* State machine *)

(* No request is being handled. The handlers are coroutines that never   *)
(* await, so the event loop runs one request to its end before the next. *)
NoRequest == [op |-> "none"]
NoResponse == Raise("none")
Idle == req = NoRequest

Init ==
    /\ trades = <<>>
    /\ req = NoRequest
    /\ resp = NoResponse

add_trade(trade) ==
    /\ Idle
    /\ Len(trades) < MaxTrades
    /\ trades' = Append(trades, trade)
    /\ UNCHANGED <<req, resp>>

AddTrade == \E trade \in TradeInputs : add_trade(trade)

(* One request to GET /trades/ with the parameters q *)
ListTradesRequest(q) ==
    /\ Idle
    /\ req' = [op |-> "list_trades", q |-> q]
    /\ resp' = list_trades(trades, q)
    /\ UNCHANGED trades

(* One request to GET /trades/{trade_id} *)
GetTradeByIdRequest(trade_id) ==
    /\ Idle
    /\ req' = [op |-> "get_trade_by_id", trade_id |-> trade_id]
    /\ resp' = get_trade_by_id(trades, trade_id)
    /\ UNCHANGED trades

(* One call of trade_db.filter_trades with the arguments a *)
FilterTradesCall(a) ==
    /\ Idle
    /\ req' = [op |-> "filter_trades", a |-> a]
    /\ resp' = filter_trades(trades, a.asset_classes, a.start, a.end, a.min_price, a.max_price, a.trade_type)
    /\ UNCHANGED trades

(* The response is handed back and the next request can be taken *)
SendResponse ==
    /\ ~Idle
    /\ req' = NoRequest
    /\ resp' = NoResponse
    /\ UNCHANGED trades

----------------------------------------------------------------------------
(* The store and its primitives: add, lookup by id, filter *)

FilterArgs ==
    [asset_classes : {None, Some(PyList(<< <<"a">> >>)), Some(PyList(<< <<"b">>, <<"a", "b">> >>)), Some(PyStr(<<"a", "b">>))},
     start : {None, Some(2)}, end : {None, Some(1)},
     min_price : {None, Some(1), Some(2)}, max_price : {None, Some(1)},
     trade_type : {None, Some("BUY"), Some("buy")}]

GetTradeById == \E trade_id \in TradeIds : GetTradeByIdRequest(trade_id)
FilterTrades == \E a \in FilterArgs : FilterTradesCall(a)

NextStore == AddTrade \/ GetTradeById \/ FilterTrades \/ SendResponse
SpecStore == Init /\ [][NextStore]_vars

----------------------------------------------------------------------------
(* List queries that vary search, filter, exclusion and trader *)

(* Trader names asked for: none given, the empty name, two of the store *)
TraderParams == {None, Some(<<>>), Some(<<"a">>), Some(<<"b">>)}

SelectQueries ==
    { [DefaultQuery EXCEPT !.search = s, !.trader = t, !.exclude_traders = e, !.asset_classes = a, !.sort_by = k] :
        s \in {None, Some(<<>>), Some(<<"A">>), Some(<<"a", "b">>)},
        t \in TraderParams,
        e \in {<<>>, << <<>> >>, << <<"a">> >>, << <<"b">>, <<"a">> >>},
        a \in {None, Some(<<"a", "b">>)},
        k \in {<< <<"trade_date_time">> >>, << <<"-", "trader">> >>} }

ListSelected == \E q \in SelectQueries : ListTradesRequest(q)

NextSelect == AddTrade \/ ListSelected \/ SendResponse
SpecSelect == Init /\ [][NextSelect]_vars

----------------------------------------------------------------------------
(* List queries that vary the page, the page size and the sort key *)

PageQueries ==
    { [DefaultQuery EXCEPT !.page = p, !.page_size = n, !.sort_by = k, !.trader = t] :
        p \in (-1)..MaxPage,
        n \in (-1)..MaxPageSize,
        k \in {<< <<"trade_date_time">> >>, << <<"-", "trader">> >>, << <<"-", "price">> >>, << <<"nonexistent_field">> >>},
        t \in {None, Some(<<"b", "b">>)} }

ListPaged == \E q \in PageQueries : ListTradesRequest(q)

NextPage == AddTrade \/ ListPaged \/ SendResponse
SpecPage == Init /\ [][NextPage]_vars

----------------------------------------------------------------------------
(* List queries that vary the sort_by list *)

SortFields ==
    { <<"trader">>, <<"-", "trader">>, <<"-", "-", "trade_date_time">>, <<"asset_class">> }

RECURSIVE SeqsUpTo(_, _)
SeqsUpTo(S, n) == IF n = 0 THEN {<<>>} ELSE LET shorter == SeqsUpTo(S, n - 1) IN shorter \cup {Append(l, x) : l \in shorter, x \in S}

SortQueries ==
    { [DefaultQuery EXCEPT !.sort_by = k, !.trader = t] : k \in SeqsUpTo(SortFields, MaxKeys), t \in {None, Some(<<"b">>)} }

ListSorted == \E q \in SortQueries : ListTradesRequest(q)

NextSort == AddTrade \/ ListSorted \/ SendResponse
SpecSort == Init /\ [][NextSort]_vars

----------------------------------------------------------------------------
(* Properties *)

IsList == req.op = "list_trades"
Count(s, x) == Cardinality({i \in DOMAIN s : s[i] = x})
Failed == resp.status \in {"AttributeError", "TypeError", "ValidationError"}

(* C1: a list query that carries a search text gives exactly what the     *)
(* same query without the search text gives.                              *)
C1_SearchNeverAffectsResult ==
    (IsList /\ req.q.search # None) => resp = list_trades(trades, [req.q EXCEPT !.search = None])

(* The set the asset_classes argument stands for: the items of a list,   *)
(* the one name of a str.                                                 *)
AssetClassSet(c) == IF c.kind = "list" THEN Elems(c.val) ELSE {c.val}

Satisfies(t, a) ==
    /\ a.asset_classes = None \/ (t.asset_class # None /\ Val(t.asset_class) \in AssetClassSet(Val(a.asset_classes)))
    /\ a.start = None \/ Val(a.start) <= t.trade_date_time
    /\ a.end = None \/ t.trade_date_time <= Val(a.end)
    /\ a.min_price = None \/ Val(a.min_price) <= t.trade_details.price
    /\ a.max_price = None \/ t.trade_details.price <= Val(a.max_price)
    /\ a.trade_type = None \/ t.trade_details.buySellIndicator = Val(a.trade_type)

(* C2: filter returns exactly the trades of the store, in insertion       *)
(* order, that satisfy every supplied constraint, asset_classes being a   *)
(* set-membership test.                                                   *)
C2_FilterIsConjunctionOfConstraints ==
    req.op = "filter_trades" =>
        LET sat(t) == Satisfies(t, req.a)
        IN resp = Ok(SelectSeq(trades, sat))

(* C3 as stated: no returned trade has an excluded trader, and a query    *)
(* whose trader parameter is also in exclude_traders returns nothing.     *)
C3_ExcludedTraderNeverReturned ==
    IsList =>
        /\ \A i \in DOMAIN resp.body : resp.body[i].trader \notin Elems(req.q.exclude_traders)
        /\ (req.q.trader # None /\ Val(req.q.trader) \in Elems(req.q.exclude_traders)) => resp.body = <<>>

(* C3 as amended: no returned trade has an excluded trader, and a query   *)
(* whose non-empty trader parameter is also in exclude_traders returns    *)
(* no trade.                                                              *)
C3_ExcludedNonEmptyTraderNeverReturned ==
    IsList =>
        /\ \A i \in DOMAIN resp.body : resp.body[i].trader \notin Elems(req.q.exclude_traders)
        /\ (Truthy(req.q.trader) /\ Val(req.q.trader) \in Elems(req.q.exclude_traders)) => resp.body = <<>>

(* A query for a trader who has trades in the store next to another       *)
(* trader's, and who is excluded too, has answered with the empty list.   *)
C3_Witness ==
    /\ IsList
    /\ Truthy(req.q.trader)
    /\ Val(req.q.trader) \in Elems(req.q.exclude_traders)
    /\ \E i, j \in DOMAIN trades : trades[i].trader = Val(req.q.trader) /\ trades[j].trader \notin Elems(req.q.exclude_traders)
    /\ req.q.asset_classes = None
    /\ resp = Ok(<<>>)

(* C4: for page >= 1 and page_size >= 1 the query returns the elements of *)
(* the sorted sequence at 0-indexed positions (page-1)*page_size up to    *)
(* (page-1)*page_size + page_size, in order, and the empty sequence with  *)
(* no error when that window starts at or past the end.                   *)
C4_PageIsWindowOfSorted ==
    (IsList /\ req.q.page >= 1 /\ req.q.page_size >= 1) =>
        LET sorted_trades == SortStage(trades, req.q)
            first == (req.q.page - 1) * req.q.page_size
            n == Len(sorted_trades.body)
        IN sorted_trades.status = "ok" =>
            /\ resp.status = "ok"
            /\ Len(resp.body) = Max(0, Min(n, first + req.q.page_size) - first)
            /\ \A i \in DOMAIN resp.body : resp.body[i] = sorted_trades.body[first + i]

(* The second page of three sorted trades, two to a page, was served.     *)
C4_Witness ==
    /\ IsList
    /\ req.q.page = 2 /\ req.q.page_size = 2
    /\ Len(SortStage(trades, req.q).body) = 3
    /\ resp = Ok(<<SortStage(trades, req.q).body[3]>>)

(* C5: a list query with page < 1 or page_size < 1 fails and returns no   *)
(* sequence of trades.                                                    *)
C5_BadPageRejected ==
    (IsList /\ (req.q.page < 1 \/ req.q.page_size < 1)) => Failed

(* C6: a list query whose sort_by names something that is no field of     *)
(* Trade fails, whatever the filters leave.                               *)
C6_UnknownSortFieldRejected ==
    (IsList /\ \E i \in DOMAIN req.q.sort_by : AttrKind(lstrip_dash(req.q.sort_by[i])) = "missing") => Failed

(* C7: a list query with sort_by=["-price"] succeeds and returns trades   *)
(* in non-increasing order of trade_details.price.                        *)
C7_SortByPriceDescending ==
    (IsList /\ req.q.sort_by = << <<"-", "price">> >>) =>
        /\ resp.status = "ok"
        /\ \A i \in 1..(Len(resp.body) - 1) : resp.body[i].trade_details.price >= resp.body[i + 1].trade_details.price

(* C8: getById of the id of a stored trade returns exactly that trade,    *)
(* and getById of an id no stored trade holds signals not-found.          *)
C8_GetByIdReturnsTheTrade ==
    req.op = "get_trade_by_id" =>
        /\ \A i \in DOMAIN trades : trades[i].trade_id = Some(req.trade_id) => resp = Ok(<<trades[i]>>)
        /\ (\A i \in DOMAIN trades : trades[i].trade_id # Some(req.trade_id)) => resp.status = "NotFound"

(* C9: every trade in the store has quantity > 0, price >= 0 and a        *)
(* buySellIndicator of BUY or SELL.                                       *)
C9_StoredTradesAreValid ==
    \A i \in DOMAIN trades :
        /\ trades[i].trade_details.quantity > 0
        /\ trades[i].trade_details.price >= 0
        /\ trades[i].trade_details.buySellIndicator \in {"BUY", "SELL"}

====
